---- MODULE Spec2Model ----
(***************************************************************************)
(* Model of package xfs (jolt9dev/go-xfs): a facade over the host          *)
(* filesystem.  The filesystem is the program's state: a tree of           *)
(* directory entries kept as a function from paths (sequences of names,    *)
(* relative to the working directory) to nodes.  Every exported function   *)
(* that a property below speaks about is an operator from a filesystem     *)
(* and its arguments to a result and a new filesystem, and an action that  *)
(* applies it.  The host is a POSIX system and the caller an unprivileged  *)
(* user who owns every entry.                                              *)
(***************************************************************************)
EXTENDS Naturals, Integers, Sequences, FiniteSets, TLC

VARIABLES fs,       \* the filesystem: path -> node, for the entries that exist
          pre,      \* the filesystem as it was when the last call started
          op,       \* the last call: function, arguments, results
          prev,     \* the call before the last
          created,  \* every path that has held an entry so far
          ncalls,   \* number of calls made
          input,    \* the text, lines and separator the text functions are given
          proc      \* two callers at once: where each is, and what the copier holds

vars == <<fs, pre, op, prev, created, ncalls, input, proc>>

-----------------------------------------------------------------------------
(* Bounds of the model *)

\* calls per run
MaxCalls == 2
\* longest path, in names, that the namespace holds (stands for PATH_MAX)
MaxDepth == 2
\* longest text, in bytes, given to WriteTextFile
MaxLen == 3
\* most lines given to WriteFileLines
MaxLines == 2

-----------------------------------------------------------------------------
(* Names, paths, bytes *)

\* names of directory entries, in lexical order
NameOrder == <<"d", "f", "l", "n">>
Names == {NameOrder[i] : i \in 1..Len(NameOrder)}

\* a path is a non-empty sequence of names
Paths == UNION {[1..k -> Names] : k \in 1..MaxDepth}

LF == "\n"
CR == "\r"
\* "Z" stands for a run of MaxScanTokenSize bytes 'z'
BigRun == "Z"

\* the buffer limit of bufio.Scanner (bufio.MaxScanTokenSize)
MaxScanTokenSize == 64 * 1024

ByteWeight(c) == IF c = BigRun THEN MaxScanTokenSize ELSE 1

RECURSIVE ByteLen(_)
ByteLen(s) == IF s = <<>> THEN 0 ELSE ByteWeight(Head(s)) + ByteLen(Tail(s))

-----------------------------------------------------------------------------
(* Permission bits *)

\* the process's file mode creation mask, 0o022
Umask == 2 * 8 + 2

ModeFile == 6 * 64 + 4 * 8 + 4      \* 0o644
ModeDir == 7 * 64 + 5 * 8 + 5       \* 0o755
ModeCreate == 6 * 64 + 6 * 8 + 6    \* 0o666, os.Create
ModeLink == 7 * 64 + 7 * 8 + 7      \* 0o777, what lstat reports for a link
ModeAll == 7 * 64 + 7 * 8 + 7       \* 0o777, a perm the umask cuts
ModeWriteOnly == 2 * 64             \* 0o200
ModeReadOnly == 4 * 64 + 4 * 8 + 4  \* 0o444
ModeNone == 0 * 64                  \* 0o000

RECURSIVE AndNot(_, _, _)
\* a AND NOT b over the low n bits
AndNot(a, b, n) ==
    IF n = 0 THEN 0
    ELSE (IF a % 2 = 1 /\ b % 2 = 0 THEN 1 ELSE 0)
         + 2 * AndNot(a \div 2, b \div 2, n - 1)

\* the mode an entry gets when created with perm
Masked(perm) == AndNot(perm, Umask, 9)

CanRead(mode) == (mode \div 256) % 2 = 1
CanWrite(mode) == (mode \div 128) % 2 = 1
CanSearch(mode) == (mode \div 64) % 2 = 1

-----------------------------------------------------------------------------
(* Nodes and lookup *)

None == [kind |-> "none", mode |-> 0, data |-> <<>>, target |-> <<>>]
FileNode(mode, data) == [kind |-> "file", mode |-> mode, data |-> data, target |-> <<>>]
DirNode(mode) == [kind |-> "dir", mode |-> mode, data |-> <<>>, target |-> <<>>]
LinkNode(target) == [kind |-> "symlink", mode |-> ModeLink, data |-> <<>>, target |-> target]

\* the working directory: always a directory the caller may search and write
Cwd == DirNode(ModeDir)

Node(f, p) == IF p = <<>> THEN Cwd ELSE IF p \in DOMAIN f THEN f[p] ELSE None

Put(f, p, n) == (p :> n) @@ f

Parent(p) == SubSeq(p, 1, Len(p) - 1)

IsPrefix(p, q) == Len(p) <= Len(q) /\ SubSeq(q, 1, Len(p)) = p

\* the number of links the kernel follows in one resolution before ELOOP
MaxLinks == 40

RECURSIVE Namei(_, _, _, _, _)
\* Path resolution as the kernel does it: from directory cur, walk the names
\* of rest; follow says whether a link in the last position is followed.
\*   err = "nil":    the entry exists, at real path `path`
\*   err = "ENOENT": with creatable, only the last name is missing and an
\*                   entry can be made at `path`
Namei(f, cur, rest, follow, fuel) ==
    IF rest = <<>> THEN [err |-> "nil", path |-> cur, creatable |-> FALSE]
    ELSE
    LET dir == Node(f, cur)
        p == Append(cur, Head(rest))
        n == Node(f, p)
        last == Len(rest) = 1
    IN  IF ~CanSearch(dir.mode) THEN [err |-> "EACCES", path |-> p, creatable |-> FALSE]
        ELSE IF n.kind = "none"
            THEN [err |-> "ENOENT", path |-> p, creatable |-> last]
        ELSE IF n.kind = "symlink" /\ (~last \/ follow)
            THEN IF fuel = 0 THEN [err |-> "ELOOP", path |-> p, creatable |-> FALSE]
                 ELSE Namei(f, cur, n.target \o Tail(rest), follow, fuel - 1)
        ELSE IF last THEN [err |-> "nil", path |-> p, creatable |-> FALSE]
        ELSE IF n.kind # "dir" THEN [err |-> "ENOTDIR", path |-> p, creatable |-> FALSE]
        ELSE Namei(f, p, Tail(rest), follow, fuel)

Resolve1(f, p, follow) == Namei(f, <<>>, p, follow, MaxLinks)

-----
(* What a caller sees at a path *)

\* the node a path leads to, links followed; None when it leads nowhere
Seen(f, p) ==
    LET r == Resolve1(f, p, TRUE)
    IN  IF r.err = "nil" THEN Node(f, r.path) ELSE None

\* the path's own entry, and the node it leads to
Same(f, g, p) == Seen(f, p) = Seen(g, p) /\ Node(f, p) = Node(g, p)

-----------------------------------------------------------------------------
(* The host calls the package passes through to (package os) *)

\* os.IsNotExist
IsNotExist(err) == err = "ENOENT"

\* os.Stat: the metadata query that follows links
osStat(f, p) ==
    LET r == Resolve1(f, p, TRUE)
        n == Node(f, r.path)
    IN  IF r.err # "nil" THEN [err |-> r.err, isDir |-> FALSE, mode |-> 0, isLink |-> FALSE]
        ELSE [err |-> "nil", isDir |-> n.kind = "dir", mode |-> n.mode, isLink |-> FALSE]

\* os.Lstat: the metadata query that does not follow a link in the last position
osLstat(f, p) ==
    LET r == Resolve1(f, p, FALSE)
        n == Node(f, r.path)
    IN  IF r.err # "nil" THEN [err |-> r.err, isDir |-> FALSE, mode |-> 0, isLink |-> FALSE]
        ELSE [err |-> "nil", isDir |-> n.kind = "dir", mode |-> n.mode,
              isLink |-> n.kind = "symlink"]

\* os.Open: open for reading; the handle is the real path of the entry
osOpen(f, p) ==
    LET r == Resolve1(f, p, TRUE)
    IN  IF r.err # "nil" THEN [err |-> r.err, path |-> <<>>]
        ELSE IF ~CanRead(Node(f, r.path).mode) THEN [err |-> "EACCES", path |-> <<>>]
        ELSE [err |-> "nil", path |-> r.path]

\* open(2) with O_CREATE|O_TRUNC: the entry is truncated when it exists (and
\* the caller may open it with access `need`), created with perm otherwise
OpenTrunc(f, p, perm, needRead) ==
    LET r == Resolve1(f, p, TRUE)
        n == Node(f, r.path)
    IN  IF r.err = "nil" THEN
            IF n.kind = "dir" THEN [err |-> "EISDIR", fs |-> f, path |-> <<>>]
            ELSE IF ~CanWrite(n.mode) \/ (needRead /\ ~CanRead(n.mode))
                THEN [err |-> "EACCES", fs |-> f, path |-> <<>>]
            ELSE [err |-> "nil", fs |-> Put(f, r.path, FileNode(n.mode, <<>>)),
                  path |-> r.path]
        ELSE IF r.err = "ENOENT" /\ r.creatable THEN
            IF r.path \notin Paths THEN [err |-> "ENAMETOOLONG", fs |-> f, path |-> <<>>]
            ELSE IF ~CanWrite(Node(f, Parent(r.path)).mode)
                THEN [err |-> "EACCES", fs |-> f, path |-> <<>>]
            ELSE [err |-> "nil", fs |-> Put(f, r.path, FileNode(Masked(perm), <<>>)),
                  path |-> r.path]
        ELSE [err |-> r.err, fs |-> f, path |-> <<>>]

\* os.Create: O_RDWR|O_CREATE|O_TRUNC, 0666
osCreate(f, p) == OpenTrunc(f, p, ModeCreate, TRUE)

\* os.Chmod: follows links; sets the permission bits
osChmod(f, p, mode) ==
    LET r == Resolve1(f, p, TRUE)
        n == Node(f, r.path)
    IN  IF r.err # "nil" THEN [err |-> r.err, fs |-> f]
        ELSE [err |-> "nil", fs |-> Put(f, r.path, [n EXCEPT !.mode = mode % 512])]

\* os.Mkdir: does not follow a link in the last position
osMkdir(f, p, perm) ==
    LET r == Resolve1(f, p, FALSE)
    IN  IF r.err = "nil" THEN [err |-> "EEXIST", fs |-> f]
        ELSE IF r.err = "ENOENT" /\ r.creatable THEN
            IF r.path \notin Paths THEN [err |-> "ENAMETOOLONG", fs |-> f]
            ELSE IF ~CanWrite(Node(f, Parent(r.path)).mode) THEN [err |-> "EACCES", fs |-> f]
            ELSE [err |-> "nil", fs |-> Put(f, r.path, DirNode(Masked(perm)))]
        ELSE [err |-> r.err, fs |-> f]

RECURSIVE osMkdirAll(_, _, _)
\* os.MkdirAll: stat; make the parent; mkdir; on failure accept a directory
\* that is there all the same
osMkdirAll(f, p, perm) ==
    LET s == osStat(f, p)
    IN  IF s.err = "nil" THEN
            [err |-> IF s.isDir THEN "nil" ELSE "ENOTDIR", fs |-> f]
        ELSE
        LET up == IF Len(p) > 1 THEN osMkdirAll(f, Parent(p), perm)
                  ELSE [err |-> "nil", fs |-> f]
        IN  IF up.err # "nil" THEN up
            ELSE
            LET m == osMkdir(up.fs, p, perm)
                l == osLstat(up.fs, p)
            IN  IF m.err = "nil" THEN m
                ELSE IF l.err = "nil" /\ l.isDir THEN [err |-> "nil", fs |-> up.fs]
                ELSE [err |-> m.err, fs |-> up.fs]

\* os.WriteFile: O_WRONLY|O_CREATE|O_TRUNC with perm, write, close
osWriteFile(f, p, data, perm) ==
    LET o == OpenTrunc(f, p, perm, FALSE)
    IN  IF o.err # "nil" THEN [err |-> o.err, fs |-> f]
        ELSE [err |-> "nil",
              fs |-> Put(o.fs, o.path, [Node(o.fs, o.path) EXCEPT !.data = data])]

\* os.ReadFile
osReadFile(f, p) ==
    LET o == osOpen(f, p)
    IN  IF o.err # "nil" THEN [err |-> o.err, data |-> <<>>]
        ELSE IF Node(f, o.path).kind = "dir" THEN [err |-> "EISDIR", data |-> <<>>]
        ELSE [err |-> "nil", data |-> Node(f, o.path).data]

\* os.Symlink: newname becomes a link holding oldname
osSymlink(f, oldname, newname) ==
    LET r == Resolve1(f, newname, FALSE)
    IN  IF r.err = "nil" THEN [err |-> "EEXIST", fs |-> f]
        ELSE IF r.err = "ENOENT" /\ r.creatable THEN
            IF r.path \notin Paths THEN [err |-> "ENAMETOOLONG", fs |-> f]
            ELSE IF ~CanWrite(Node(f, Parent(r.path)).mode) THEN [err |-> "EACCES", fs |-> f]
            ELSE [err |-> "nil", fs |-> Put(f, r.path, LinkNode(oldname))]
        ELSE [err |-> r.err, fs |-> f]

\* the entries of f with the subtree at a moved to b
Moved(f, a, b) ==
    LET keep == {q \in DOMAIN f : ~IsPrefix(a, q) /\ ~IsPrefix(b, q)}
        sub == {q \in DOMAIN f : IsPrefix(a, q)}
        To(q) == b \o SubSeq(q, Len(a) + 1, Len(q))
        dom == keep \cup {To(q) : q \in sub}
    IN  [q \in dom |->
            IF q \in keep THEN f[q]
            ELSE f[a \o SubSeq(q, Len(b) + 1, Len(q))]]

\* os.Rename: the check os.Rename makes on a directory newname, then rename(2)
osRename(f, oldname, newname) ==
    LET o == Resolve1(f, oldname, FALSE)
        n == Resolve1(f, newname, FALSE)
        on == Node(f, o.path)
        nn == Node(f, n.path)
        sub == {q \in DOMAIN f : IsPrefix(o.path, q)}
        fail(e) == [err |-> e, fs |-> f]
    IN  IF n.err = "nil" /\ nn.kind = "dir" /\ o.err # "nil" THEN fail(o.err)
        ELSE IF n.err = "nil" /\ nn.kind = "dir" /\ (newname = oldname \/ o.path # n.path)
            THEN fail("EEXIST")
        ELSE IF o.err # "nil" THEN fail(o.err)
        ELSE IF n.err # "nil" /\ ~(n.err = "ENOENT" /\ n.creatable) THEN fail(n.err)
        ELSE IF o.path = n.path THEN [err |-> "nil", fs |-> f]
        ELSE IF on.kind = "dir" /\ IsPrefix(o.path, n.path) THEN fail("EINVAL")
        ELSE IF on.kind = "dir" /\ n.err = "nil" THEN fail("ENOTDIR")
        ELSE IF ~CanWrite(Node(f, Parent(o.path)).mode)
                \/ ~CanWrite(Node(f, Parent(n.path)).mode) THEN fail("EACCES")
        ELSE IF on.kind = "dir" /\ Parent(o.path) # Parent(n.path) /\ ~CanWrite(on.mode)
            THEN fail("EACCES")
        ELSE IF \E q \in sub : n.path \o SubSeq(q, Len(o.path) + 1, Len(q)) \notin Paths
            THEN fail("ENAMETOOLONG")
        ELSE [err |-> "nil", fs |-> Moved(f, o.path, n.path)]

-----------------------------------------------------------------------------
(* The package's functions, as operators on a filesystem *)

\* Exists as "the query succeeded"
ExistsWhenQueried(f, filename) == osStat(f, filename).err = "nil"

\* Exists (xfs.go 179-182)
Exists(f, filename) ==
    LET s == osStat(f, filename)
    IN  s.err = "nil" \/ ~IsNotExist(s.err)

\* IsFile with the query that does not follow links
IsFileNoFollow(f, filename) ==
    IF osLstat(f, filename).err # "nil" THEN FALSE ELSE ~osLstat(f, filename).isDir

\* IsFile (xfs.go 236-243)
IsFile(f, filename) ==
    LET s == osStat(f, filename)
    IN  IF s.err # "nil" THEN FALSE ELSE ~s.isDir

\* IsDir (xfs.go 249-256)
IsDir(f, filename) ==
    LET s == osStat(f, filename)
    IN  IF s.err # "nil" THEN FALSE ELSE s.isDir

\* IsSymlink (xfs.go 262-269)
IsSymlink(f, filename) ==
    LET s == osLstat(f, filename)
    IN  IF s.err # "nil" THEN FALSE ELSE s.isLink

\* EnsureDir as a bare mkdir, without the check for an entry that exists
EnsureDirMkdir(f, dir, perm) == osMkdir(f, dir, perm)

\* EnsureDir that returns early only for a directory
EnsureDirUnlessDir(f, dir, perm) ==
    IF IsDir(f, dir) THEN [err |-> "nil", fs |-> f]
    ELSE osMkdirAll(f, dir, perm)

\* EnsureDir (xfs.go 189-195)
EnsureDir(f, dir, perm) ==
    IF Exists(f, dir) THEN [err |-> "nil", fs |-> f]
    ELSE osMkdirAll(f, dir, perm)

\* EnsureFile (xfs.go 210-222)
EnsureFile(f, filename, perm) ==
    IF Exists(f, filename) THEN [err |-> "nil", fs |-> f]
    ELSE
    LET c == osCreate(f, filename)
    IN  IF c.err # "nil" THEN [err |-> c.err, fs |-> f]
        ELSE osChmod(c.fs, filename, perm)

\* io.Copy(dstFile, srcFile): every byte the source handle yields, written to
\* the destination handle; reading a directory fails
ioCopy(f, dstHandle, srcHandle) ==
    IF Node(f, srcHandle).kind = "dir" THEN [err |-> "EISDIR", fs |-> f]
    ELSE [err |-> "nil",
          fs |-> Put(f, dstHandle,
                     [Node(f, dstHandle) EXCEPT !.data = Node(f, srcHandle).data])]

\* the handles of copyFile: opened holds those the call opened, closed those
\* whose deferred Close (xfs.go 600, 606) runs as the call returns
SrcFile == "srcFile"
DstFile == "dstFile"

\* copyFile after io.Copy (xfs.go 608-612): c is what io.Copy returned
copyChmod(c, dst, infoMode) ==
    IF c.err # "nil"
    THEN [err |-> c.err, fs |-> c.fs, step |-> "copy",
          opened |-> {SrcFile, DstFile}, closed |-> {SrcFile, DstFile}]
    ELSE [err |-> osChmod(c.fs, dst, infoMode).err,
          fs |-> osChmod(c.fs, dst, infoMode).fs, step |-> "chmod",
          opened |-> {SrcFile, DstFile}, closed |-> {SrcFile, DstFile}]

\* copyFile that closes srcFile at its end, not by a deferred call: a return
\* on the way leaves it open
copyCreatedCloseAtEnd(f, s, d, dst, infoMode) ==
    IF d.err # "nil"
    THEN [err |-> d.err, fs |-> f, step |-> "create",
          opened |-> {SrcFile}, closed |-> {}]
    ELSE copyChmod(ioCopy(d.fs, d.path, s.path), dst, infoMode)

\* copyFile after os.Create (xfs.go 602-612): s and d are what os.Open and
\* os.Create returned
copyCreated(f, s, d, dst, infoMode) ==
    IF d.err # "nil"
    THEN [err |-> d.err, fs |-> f, step |-> "create",
          opened |-> {SrcFile}, closed |-> {SrcFile}]
    ELSE copyChmod(ioCopy(d.fs, d.path, s.path), dst, infoMode)

\* copyFile after os.Open (xfs.go 596-612): s is what os.Open returned
copyOpened(f, s, dst, infoMode) ==
    IF s.err # "nil"
    THEN [err |-> s.err, fs |-> f, step |-> "open", opened |-> {}, closed |-> {}]
    ELSE copyCreated(f, s, osCreate(f, dst), dst, infoMode)

\* copyFile from its first open on (xfs.go 596-612); step names the
\* statement that returned
copyBytes(f, src, dst, infoMode) == copyOpened(f, osOpen(f, src), dst, infoMode)

\* copyFile with the guard on overwrite lost
copyFileUnguarded(f, src, dst, infoMode, overwrite) == copyBytes(f, src, dst, infoMode)

\* copyFile (xfs.go 590-613)
copyFile(f, src, dst, infoMode, overwrite) ==
    IF Exists(f, dst) /\ ~overwrite
    THEN [err |-> "nil", fs |-> f, step |-> "noop", opened |-> {}, closed |-> {}]
    ELSE copyBytes(f, src, dst, infoMode)

\* CopyFile (xfs.go 121-128)
CopyFile(f, src, dst, overwrite) ==
    LET info == osStat(f, src)
    IN  IF info.err # "nil"
        THEN [err |-> info.err, fs |-> f, step |-> "stat", opened |-> {}, closed |-> {}]
        ELSE copyFile(f, src, dst, info.mode, overwrite)

\* the function of CopyDir with directories passed over
walkFnFilesOnly(f, src, dst, overwrite, path, info, err) ==
    IF err # "nil" THEN [err |-> err, fs |-> f]
    ELSE IF info.isDir THEN [err |-> "nil", fs |-> f]
    ELSE [err |-> copyFile(f, path, dst \o SubSeq(path, Len(src) + 1, Len(path)),
                           info.mode, overwrite).err,
          fs |-> copyFile(f, path, dst \o SubSeq(path, Len(src) + 1, Len(path)),
                          info.mode, overwrite).fs]

\* the function CopyDir hands to filepath.Walk (xfs.go 94-111)
walkFn(f, src, dst, overwrite, path, info, err) ==
    IF err # "nil" THEN [err |-> err, fs |-> f]
    ELSE
    LET relPath == SubSeq(path, Len(src) + 1, Len(path))
        dstPath == dst \o relPath
    IN  IF info.isDir THEN EnsureDir(f, dstPath, info.mode)
        ELSE [err |-> copyFile(f, path, dstPath, info.mode, overwrite).err,
              fs |-> copyFile(f, path, dstPath, info.mode, overwrite).fs]

\* readDirNames of filepath.Walk: the names in a directory, sorted
readDirNames(f, path) ==
    LET o == osOpen(f, path)
        has(x) == Append(o.path, x) \in DOMAIN f
    IN  IF o.err # "nil" THEN [err |-> o.err, names |-> <<>>]
        ELSE [err |-> "nil", names |-> SelectSeq(NameOrder, has)]

\* the names filepath.Walk reads at an entry: those of a directory that
\* could be queried, none otherwise
walkNames(f, path, info) ==
    IF info.err = "nil" /\ info.isDir THEN readDirNames(f, path)
    ELSE [err |-> info.err, names |-> <<>>]

\* the paths of the names below a directory
Below(path, names) == [i \in 1..Len(names) |-> Append(path, names[i])]

RECURSIVE walk(_, _, _, _, _)
RECURSIVE walkNext(_, _, _, _, _, _)
\* filepath.Walk, the entries still to visit kept in todo, in the order of the
\* visit: an entry is queried without following links as its turn comes; a
\* directory's names are read before the function is called on it, and are
\* visited in lexical order before what follows the directory
walk(f, src, dst, overwrite, todo) ==
    IF todo = <<>> THEN [err |-> "nil", fs |-> f, at |-> <<>>]
    ELSE walkNext(src, dst, overwrite, todo,
                  walkNames(f, Head(todo), osLstat(f, Head(todo))),
                  walkFn(f, src, dst, overwrite, Head(todo), osLstat(f, Head(todo)),
                         walkNames(f, Head(todo), osLstat(f, Head(todo))).err))

\* the walk that goes on to the entries that follow one that failed, and
\* returns the first error at its end
walkNextAfterFailure(src, dst, overwrite, todo, rd, r) ==
    IF r.err # "nil"
    THEN [err |-> r.err, fs |-> walk(r.fs, src, dst, overwrite, Tail(todo)).fs,
          at |-> Head(todo)]
    ELSE walk(r.fs, src, dst, overwrite, Below(Head(todo), rd.names) \o Tail(todo))

\* rd is what reading the names returned, r what the function returned; at is
\* the entry whose handling failed
walkNext(src, dst, overwrite, todo, rd, r) ==
    IF r.err # "nil" THEN [err |-> r.err, fs |-> r.fs, at |-> Head(todo)]
    ELSE walk(r.fs, src, dst, overwrite, Below(Head(todo), rd.names) \o Tail(todo))

\* CopyDir (xfs.go 93-112)
CopyDir(f, src, dst, overwrite) == walk(f, src, dst, overwrite, <<src>>)

\* Rename as a copy that leaves oldpath in place
RenameByCopy(f, oldpath, newpath) ==
    [err |-> CopyFile(f, oldpath, newpath, TRUE).err,
     fs |-> CopyFile(f, oldpath, newpath, TRUE).fs]

\* Rename (xfs.go 478-480)
Rename(f, oldpath, newpath) == osRename(f, oldpath, newpath)

\* Symlink (xfs.go 498-500)
Symlink(f, oldname, newname) == osSymlink(f, oldname, newname)

\* Chmod (xfs.go 62-64)
Chmod(f, filename, perm) == osChmod(f, filename, perm)

\* WriteTextFile over a file that is not truncated: what the old content had
\* beyond the new stays
WriteTextFileNoTrunc(f, filename, data, perm) ==
    [err |-> osWriteFile(f, filename, data, perm).err,
     fs |-> IF osWriteFile(f, filename, data, perm).err # "nil" THEN f
            ELSE osWriteFile(f, filename,
                             data \o SubSeq(Seen(f, filename).data, Len(data) + 1,
                                            Len(Seen(f, filename).data)),
                             perm).fs]

\* WriteTextFile (xfs.go 586-588): []byte(data) holds the bytes of data
WriteTextFile(f, filename, data, perm) == osWriteFile(f, filename, data, perm)

\* ReadTextFile (xfs.go 427-434): string(data) holds the bytes of data
ReadTextFile(f, filename) ==
    LET r == osReadFile(f, filename)
    IN  IF r.err # "nil" THEN [err |-> r.err, text |-> <<>>]
        ELSE [err |-> "nil", text |-> r.data]

-----------------------------------------------------------------------------
(* Lines *)

\* EOL, the separator of WriteFileLines: the host's line ending
EOL == <<LF>>

RECURSIVE JoinLines(_, _)
\* the loop of WriteFileLinesSep (xfs.go 567-571): each line, then sep
JoinLines(lines, sep) ==
    IF lines = <<>> THEN <<>>
    ELSE Head(lines) \o sep \o JoinLines(Tail(lines), sep)

RECURSIVE JoinBetween(_, _)
\* the lines with sep between them only
JoinBetween(lines, sep) ==
    IF lines = <<>> THEN <<>>
    ELSE IF Len(lines) = 1 THEN Head(lines)
    ELSE Head(lines) \o sep \o JoinBetween(Tail(lines), sep)

\* WriteFileLinesSep with no separator after the last line
WriteFileLinesJoined(f, filename, lines, sep, perm) ==
    osWriteFile(f, filename, JoinBetween(lines, sep), perm)

\* WriteFileLinesSep (xfs.go 566-574)
WriteFileLinesSep(f, filename, lines, sep, perm) ==
    osWriteFile(f, filename, JoinLines(lines, sep), perm)

\* WriteFileLines (xfs.go 551-553)
WriteFileLines(f, filename, lines, perm) ==
    WriteFileLinesSep(f, filename, lines, EOL, perm)

\* dropCR of bufio.ScanLines: a token loses one carriage return at its end
dropCR(tok) ==
    IF tok # <<>> /\ tok[Len(tok)] = CR THEN SubSeq(tok, 1, Len(tok) - 1) ELSE tok

RECURSIVE Scan(_, _, _)
\* the loop of ReadFileLines over bufio.Scanner (xfs.go 449-455): tokens end at
\* a line feed or at the end of the data; a token the buffer cannot hold stops
\* the scan with bufio.ErrTooLong; cur is the token read so far
Scan(data, cur, lines) ==
    IF ByteLen(cur) >= MaxScanTokenSize THEN [err |-> "ErrTooLong", lines |-> lines]
    ELSE IF data = <<>> THEN
        [err |-> "nil", lines |-> IF cur = <<>> THEN lines ELSE Append(lines, dropCR(cur))]
    ELSE IF Head(data) = LF THEN Scan(Tail(data), <<>>, Append(lines, dropCR(cur)))
    ELSE Scan(Tail(data), Append(cur, Head(data)), lines)

\* ReadFileLines (xfs.go 443-456)
ReadFileLines(f, filename) ==
    IF osReadFile(f, filename).err # "nil"
    THEN [err |-> osReadFile(f, filename).err, lines |-> <<>>]
    ELSE Scan(osReadFile(f, filename).data, <<>>, <<>>)

-----------------------------------------------------------------------------
(* Resolve: paths as strings, on a host whose separator is "/" *)

Slash == "/"
Backslash == "\\"

\* filepath.IsAbs on the host
IsAbs(path) == path # <<>> /\ path[1] = Slash

RECURSIVE Split(_, _, _)
\* the elements of a path between its separators; cur is the element read so far
Split(path, cur, acc) ==
    IF path = <<>> THEN Append(acc, cur)
    ELSE IF Head(path) = Slash THEN Split(Tail(path), <<>>, Append(acc, cur))
    ELSE Split(Tail(path), Append(cur, Head(path)), acc)

RECURSIVE CleanElems(_, _, _)
\* filepath.Clean element by element: empty elements and "." go, ".." takes
\* the element before it, stays at the front of an unrooted path and goes at
\* the root
CleanElems(elems, rooted, out) ==
    IF elems = <<>> THEN out
    ELSE IF Head(elems) = <<>> \/ Head(elems) = <<".">>
        THEN CleanElems(Tail(elems), rooted, out)
    ELSE IF Head(elems) = <<".", ".">>
        THEN IF out # <<>> /\ out[Len(out)] # <<".", ".">>
                 THEN CleanElems(Tail(elems), rooted, SubSeq(out, 1, Len(out) - 1))
             ELSE IF rooted THEN CleanElems(Tail(elems), rooted, out)
             ELSE CleanElems(Tail(elems), rooted, Append(out, Head(elems)))
    ELSE CleanElems(Tail(elems), rooted, Append(out, Head(elems)))

RECURSIVE Glue(_)
\* elements with a separator between them
Glue(elems) ==
    IF elems = <<>> THEN <<>>
    ELSE IF Len(elems) = 1 THEN Head(elems)
    ELSE Head(elems) \o <<Slash>> \o Glue(Tail(elems))

\* filepath.Clean
Clean(path) ==
    IF IsAbs(path) THEN <<Slash>> \o Glue(CleanElems(Split(path, <<>>, <<>>), TRUE, <<>>))
    ELSE IF CleanElems(Split(path, <<>>, <<>>), FALSE, <<>>) = <<>> THEN <<".">>
    ELSE Glue(CleanElems(Split(path, <<>>, <<>>), FALSE, <<>>))

\* filepath.Join of two elements
Join(a, b) ==
    IF a # <<>> THEN Clean(a \o <<Slash>> \o b)
    ELSE IF b # <<>> THEN Clean(b)
    ELSE <<>>

\* os.Getwd: the working directory; none when it cannot be determined
Getwd(env) ==
    [err |-> IF env.cwd = <<>> THEN "ENOENT" ELSE "nil", path |-> env.cwd]

\* os.UserHomeDir: $HOME, an error when it is empty
UserHomeDir(env) ==
    [err |-> IF env.home = <<>> THEN "$HOME is not defined" ELSE "nil", path |-> env.home]

\* filepath.Abs
Abs(path, env) ==
    IF IsAbs(path) THEN [err |-> "nil", path |-> Clean(path)]
    ELSE IF Getwd(env).err # "nil" THEN [err |-> Getwd(env).err, path |-> <<>>]
    ELSE [err |-> "nil", path |-> Join(Getwd(env).path, path)]

\* the base Resolve works with (xfs.go 381-383); Cwd's error is dropped
BaseOrCwd(base, env) == IF base = <<>> THEN Getwd(env).path ELSE base

\* the run stops with an index out of range
Panic == [err |-> "panic", path |-> <<>>]

\* Resolve that takes no notice of a leading "~": the path goes onto the base
ResolveOntoBase(relative, base, env) ==
    IF IsAbs(relative) THEN [err |-> "nil", path |-> relative]
    ELSE IF Len(relative) < 2 THEN Panic
    ELSE IF relative[1] = "." /\ relative[2] \in {Slash, Backslash}
        THEN Abs(Join(BaseOrCwd(base, env), SubSeq(relative, 3, Len(relative))), env)
    ELSE Abs(Join(BaseOrCwd(base, env), relative), env)

\* Resolve (xfs.go 376-399); relative[0] and relative[1] of the code are
\* relative[1] and relative[2] here
Resolve(relative, base, env) ==
    IF IsAbs(relative) THEN [err |-> "nil", path |-> relative]
    ELSE IF Len(relative) < 1 THEN Panic
    ELSE IF relative[1] = "~" /\ Len(relative) < 2 THEN Panic
    ELSE IF relative[1] = "~" /\ relative[2] \in {Slash, Backslash}
        THEN IF UserHomeDir(env).err # "nil"
                 THEN [err |-> UserHomeDir(env).err, path |-> <<>>]
             ELSE Abs(Join(UserHomeDir(env).path, SubSeq(relative, 3, Len(relative))), env)
    ELSE IF relative[1] = "." /\ Len(relative) < 2 THEN Panic
    ELSE IF relative[1] = "." /\ relative[2] \in {Slash, Backslash}
        THEN Abs(Join(BaseOrCwd(base, env), SubSeq(relative, 3, Len(relative))), env)
    ELSE Abs(Join(BaseOrCwd(base, env), relative), env)

-----------------------------------------------------------------------------
(* Initial filesystems *)

TestData == <<"a", "b">>
OtherData == <<"b">>

\* the fixture the package's tests set up: MkdirAllDefault("testdir"),
\* WriteFile("testfile", "test data", 0644), Symlink("testfile", "testsymlink")
Fixture ==
    LET a == osMkdirAll(<<>>, <<"d">>, ModeDir).fs
        b == osWriteFile(a, <<"f">>, TestData, ModeFile).fs
    IN  osSymlink(b, <<"f">>, <<"l">>).fs

\* the fixture with an empty directory, a file and a link to the file put
\* into testdir
FixtureTree ==
    LET a == EnsureDir(Fixture, <<"d", "d">>, ModeDir).fs
        b == WriteTextFile(a, <<"d", "f">>, OtherData, ModeFile).fs
    IN  Symlink(b, <<"f">>, <<"d", "l">>).fs

Fixtures == {Fixture, FixtureTree}

NoInput == [text |-> <<>>, lines |-> <<>>, sep |-> <<>>, relative |-> <<>>, base |-> <<>>,
            home |-> <<>>, cwd |-> <<>>]

NoCall == [name |-> "none", src |-> <<>>, dst |-> <<>>, ow |-> FALSE, perm |-> 0,
           err |-> "nil", ret |-> FALSE, text |-> <<>>, lines |-> <<>>, sep |-> <<>>,
           relative |-> <<>>, base |-> <<>>, step |-> "", at |-> <<>>,
           opened |-> {}, closed |-> {}]

\* no caller under way
NoProc == [copier |-> "idle", writer |-> "idle", srcFile |-> <<>>, dstFile |-> <<>>,
           toWrite |-> <<>>]

Init ==
    /\ fs \in Fixtures
    /\ pre = fs
    /\ op = NoCall
    /\ prev = NoCall
    /\ created = DOMAIN fs
    /\ ncalls = 0
    /\ input = NoInput
    /\ proc = NoProc

\* a call: the record of it, and the filesystem it leaves
Returns(o, f) ==
    /\ fs' = f
    /\ pre' = fs
    /\ op' = o
    /\ prev' = op
    /\ created' = created \cup DOMAIN f
    /\ ncalls' = ncalls + 1
    /\ UNCHANGED <<input, proc>>

-----------------------------------------------------------------------------
(* Arguments *)

ExistsPaths == {<<"f">>, <<"n">>, <<"d", "f">>, <<"f", "n">>}
KindPaths == {<<"f">>, <<"d">>, <<"l">>, <<"d", "l">>}
LinkPaths == {<<"f">>, <<"l">>, <<"d", "l">>}
FileSrc == {<<"f">>, <<"d", "f">>, <<"n">>, <<"d">>}
FileDst == {<<"f">>, <<"l">>, <<"n">>}
DirSrc == {<<"d">>, <<"n">>}
DirDst == {<<"n">>, <<"d">>, <<"f">>}
EnsureDirPaths == {<<"n">>, <<"n", "d">>, <<"f">>, <<"l">>}
EnsureFilePaths == {<<"n">>, <<"f">>, <<"d", "n">>}
RenameOld == {<<"f">>, <<"l">>, <<"d">>, <<"n">>}
RenameNew == {<<"f">>, <<"n">>, <<"d", "l">>}
LinkTargets == {<<"f">>, <<"n">>}
LinkNames == {<<"n">>, <<"d", "l">>}
ChmodPaths == {<<"f">>, <<"d">>, <<"d", "d">>}
Perms == {ModeFile, ModeNone}
DirPerms == {ModeDir, ModeNone, ModeAll}
ChmodPerms == {ModeNone, ModeReadOnly}

-----------------------------------------------------------------------------
(* Actions: one per function *)

DoExists ==
    /\ ncalls < MaxCalls
    /\ \E p \in ExistsPaths :
        Returns([NoCall EXCEPT !.name = "Exists", !.src = p, !.ret = Exists(fs, p)], fs)

DoIsFile ==
    /\ ncalls < MaxCalls
    /\ \E p \in KindPaths :
        Returns([NoCall EXCEPT !.name = "IsFile", !.src = p, !.ret = IsFile(fs, p)], fs)

DoIsDir ==
    /\ ncalls < MaxCalls
    /\ \E p \in KindPaths :
        Returns([NoCall EXCEPT !.name = "IsDir", !.src = p, !.ret = IsDir(fs, p)], fs)

DoIsSymlink ==
    /\ ncalls < MaxCalls
    /\ \E p \in LinkPaths :
        Returns([NoCall EXCEPT !.name = "IsSymlink", !.src = p, !.ret = IsSymlink(fs, p)], fs)

DoEnsureDir ==
    /\ ncalls < MaxCalls
    /\ \E p \in EnsureDirPaths, perm \in DirPerms :
        LET r == EnsureDir(fs, p, perm)
        IN  Returns([NoCall EXCEPT !.name = "EnsureDir", !.src = p, !.perm = perm,
                                   !.err = r.err], r.fs)

DoEnsureFile ==
    /\ ncalls < MaxCalls
    /\ \E p \in EnsureFilePaths, perm \in Perms :
        LET r == EnsureFile(fs, p, perm)
        IN  Returns([NoCall EXCEPT !.name = "EnsureFile", !.src = p, !.perm = perm,
                                   !.err = r.err], r.fs)

DoCopyFile ==
    /\ ncalls < MaxCalls
    /\ \E src \in FileSrc, dst \in FileDst, ow \in BOOLEAN :
        LET r == CopyFile(fs, src, dst, ow)
        IN  Returns([NoCall EXCEPT !.name = "CopyFile", !.src = src, !.dst = dst,
                                   !.ow = ow, !.err = r.err, !.step = r.step,
                                   !.opened = r.opened, !.closed = r.closed], r.fs)

DoCopyDir ==
    /\ ncalls < MaxCalls
    /\ \E src \in DirSrc, dst \in DirDst, ow \in BOOLEAN :
        LET r == CopyDir(fs, src, dst, ow)
        IN  Returns([NoCall EXCEPT !.name = "CopyDir", !.src = src, !.dst = dst,
                                   !.ow = ow, !.err = r.err, !.at = r.at], r.fs)

DoRename ==
    /\ ncalls < MaxCalls
    /\ \E old \in RenameOld, new \in RenameNew :
        LET r == Rename(fs, old, new)
        IN  Returns([NoCall EXCEPT !.name = "Rename", !.src = old, !.dst = new,
                                   !.err = r.err], r.fs)

DoSymlink ==
    /\ ncalls < MaxCalls
    /\ \E old \in LinkTargets, new \in LinkNames :
        LET r == Symlink(fs, old, new)
        IN  Returns([NoCall EXCEPT !.name = "Symlink", !.src = old, !.dst = new,
                                   !.err = r.err], r.fs)

DoChmod ==
    /\ ncalls < MaxCalls
    /\ \E p \in ChmodPaths, perm \in ChmodPerms :
        LET r == Chmod(fs, p, perm)
        IN  Returns([NoCall EXCEPT !.name = "Chmod", !.src = p, !.perm = perm,
                                   !.err = r.err], r.fs)

Next ==
    \/ DoExists
    \/ DoIsFile
    \/ DoIsDir
    \/ DoIsSymlink
    \/ DoEnsureDir
    \/ DoEnsureFile
    \/ DoCopyFile
    \/ DoCopyDir
    \/ DoRename
    \/ DoSymlink
    \/ DoChmod

Spec == Init /\ [][Next]_vars

-----------------------------------------------------------------------------
(* Text and lines: the inputs are drawn at the start, the calls apply them *)

\* texts of up to MaxLen bytes
Texts == UNION {[1..k -> {"a", "b"}] : k \in 0..MaxLen}

\* lines: empty, plain, holding a line feed, ending in or holding a carriage
\* return, and one that is 64 KiB long
Lines == {<<>>, <<"a">>, <<"a", LF, "b">>, <<"a", CR>>, <<CR, "a">>, <<BigRun>>}

\* sequences of up to MaxLines lines
LineSeqs == UNION {[1..k -> Lines] : k \in 0..MaxLines}

Seps == {<<LF>>, <<CR, LF>>}

TextInputs ==
    {[NoInput EXCEPT !.text = t] : t \in Texts}
        \cup {[NoInput EXCEPT !.lines = ls, !.sep = sep] : ls \in LineSeqs, sep \in Seps}

TextPaths == {<<"f">>, <<"n">>}
LinePaths == {<<"n">>}
TextPerms == {ModeFile, ModeWriteOnly}

InitText ==
    /\ fs = Fixture
    /\ pre = fs
    /\ op = NoCall
    /\ prev = NoCall
    /\ created = DOMAIN fs
    /\ ncalls = 0
    /\ input \in TextInputs
    /\ proc = NoProc

DoWriteTextFile ==
    /\ ncalls < MaxCalls
    /\ \E p \in TextPaths, perm \in TextPerms :
        LET r == WriteTextFile(fs, p, input.text, perm)
        IN  Returns([NoCall EXCEPT !.name = "WriteTextFile", !.src = p, !.perm = perm,
                                   !.text = input.text, !.err = r.err], r.fs)

DoReadTextFile ==
    /\ ncalls < MaxCalls
    /\ \E p \in TextPaths :
        LET r == ReadTextFile(fs, p)
        IN  Returns([NoCall EXCEPT !.name = "ReadTextFile", !.src = p, !.text = r.text,
                                   !.err = r.err], fs)

DoWriteFileLines ==
    /\ ncalls < MaxCalls
    /\ \E p \in LinePaths, perm \in TextPerms :
        LET r == WriteFileLines(fs, p, input.lines, perm)
        IN  Returns([NoCall EXCEPT !.name = "WriteFileLines", !.src = p, !.perm = perm,
                                   !.lines = input.lines, !.sep = EOL, !.err = r.err], r.fs)

DoWriteFileLinesSep ==
    /\ ncalls < MaxCalls
    /\ \E p \in LinePaths :
        LET r == WriteFileLinesSep(fs, p, input.lines, input.sep, ModeFile)
        IN  Returns([NoCall EXCEPT !.name = "WriteFileLinesSep", !.src = p,
                                   !.perm = ModeFile, !.lines = input.lines,
                                   !.sep = input.sep, !.err = r.err], r.fs)

DoReadFileLines ==
    /\ ncalls < MaxCalls
    /\ \E p \in LinePaths :
        LET r == ReadFileLines(fs, p)
        IN  Returns([NoCall EXCEPT !.name = "ReadFileLines", !.src = p, !.lines = r.lines,
                                   !.err = r.err], fs)

NextText ==
    \/ DoWriteTextFile
    \/ DoReadTextFile
    \/ DoWriteFileLines
    \/ DoWriteFileLinesSep
    \/ DoReadFileLines

SpecText == InitText /\ [][NextText]_vars

-----------------------------------------------------------------------------------------------------------------------------------------------------
(* CopyFile without overwrite *)

\* C1 as stated: whenever Exists(dst) holds, CopyFile(src, dst, false)
\* returns success and leaves dst's content and permission bits as they were.
C1_NoOverwriteSucceeds ==
    (op.name = "CopyFile" /\ ~op.ow /\ Exists(pre, op.dst))
        => (op.err = "nil" /\ Same(fs, pre, op.dst))

\* C1 as amended: whenever Exists(dst) holds, CopyFile(src, dst, false) leaves
\* dst's content and permission bits as they were, and returns what the
\* metadata query on src returned: success when src can be queried, the
\* query's error otherwise.
C1_NoOverwriteUntouched ==
    (op.name = "CopyFile" /\ ~op.ow /\ Exists(pre, op.dst))
        => (Same(fs, pre, op.dst) /\ op.err = osStat(pre, op.src).err)

\* a call that returned at the guard, where a copy would have changed dst
C1_Witness ==
    /\ op.name = "CopyFile" /\ ~op.ow /\ op.err = "nil" /\ op.step = "noop"
    /\ Seen(pre, op.dst).kind = "file" /\ Seen(pre, op.src).kind = "file"
    /\ Seen(pre, op.dst).data # Seen(pre, op.src).data
    /\ Seen(fs, op.dst).data = Seen(pre, op.dst).data

-----------------------------------------------------------------------------
(* CopyFile with overwrite *)

\* C2: a successful CopyFile(src, dst, true) leaves dst with the content src
\* had before the call and with src's permission bits, also when dst names
\* the file src names.
C2_OverwriteCopies ==
    (op.name = "CopyFile" /\ op.ow /\ op.err = "nil")
        => /\ Seen(fs, op.dst).data = Seen(pre, op.src).data
           /\ Seen(fs, op.dst).mode = Seen(pre, op.src).mode

-----------------------------------------------------------------------------
(* CopyDir *)

\* relative paths below a directory, the directory itself included
Rels == {<<>>} \cup Paths

\* the real path of the root of the tree CopyDir walks
Root(f, src) == Resolve1(f, src, FALSE).path

\* the relative paths of the directories and files of the tree at src
TreeRels(f, src) ==
    IF Resolve1(f, src, FALSE).err # "nil" THEN {}
    ELSE {r \in Rels : Node(f, Root(f, src) \o r).kind \in {"dir", "file"}}

\* dst/r is what src/r was: a directory for a directory, a file with the
\* same content for a file
Reproduced(r) ==
    LET n == Node(pre, Root(pre, op.src) \o r)
    IN  /\ n.kind = "dir" => IsDir(fs, op.dst \o r)
        /\ n.kind = "file" => /\ IsFile(fs, op.dst \o r)
                              /\ Seen(fs, op.dst \o r).data = n.data

Receptive(r) ==
    LET n == Node(pre, Root(pre, op.src) \o r)
        l == osLstat(pre, op.dst \o r)
        at == Resolve1(pre, op.dst \o r, FALSE).path
    IN  \/ l.err = "ENOENT"
        \/ n.kind = "dir" /\ l.err = "nil" /\ l.isDir
        \/ /\ n.kind = "file" /\ op.ow
           /\ l.err = "nil" /\ ~l.isDir /\ ~l.isLink
           /\ at \notin {Root(pre, op.src) \o q : q \in TreeRels(pre, op.src)}

-----------------------------------------------------------------------------
(* EnsureDir, EnsureFile *)

\* the last call repeats the call before it, which succeeded
Repeated ==
    /\ prev.name = op.name /\ prev.src = op.src /\ prev.perm = op.perm
    /\ prev.err = "nil"

\* C4: a second EnsureDir (EnsureFile) with the arguments of a first that
\* succeeded returns success and leaves every entry of the filesystem as it was.
C4_EnsureIdempotent ==
    (op.name \in {"EnsureDir", "EnsureFile"} /\ Repeated)
        => (op.err = "nil" /\ fs = pre)

\* a second call after a first that created the entry
C4_Witness ==
    /\ op.name \in {"EnsureDir", "EnsureFile"} /\ Repeated /\ op.err = "nil"
    /\ op.src \notin DOMAIN Fixture /\ op.src \notin DOMAIN FixtureTree
    /\ op.src \in DOMAIN fs

-----------------------------------------------------------------------------
(* Rename *)

\* C7 as stated: whenever Rename(old, new) returns success, Exists(old) is
\* false and Exists(new) is true right after it, for every pair of paths.
C7_RenameMoves ==
    (op.name = "Rename" /\ op.err = "nil")
        => (~Exists(fs, op.src) /\ Exists(fs, op.dst))

\* no link is met on the way to p, and p holds none
LinkFree(f, p) ==
    /\ Resolve1(f, p, FALSE).path = p
    /\ Node(f, p).kind # "symlink"

\* C7 as amended: for two different paths that meet no symbolic link (none of
\* the directories on the way is one, nor is the entry itself) and that do not
\* name one and the same file, whenever Rename(old, new) returns success,
\* Exists(old) is false and Exists(new) is true right after it.
C7_RenameMovesPlainPaths ==
    (/\ op.name = "Rename" /\ op.err = "nil"
     /\ op.src # op.dst
     /\ LinkFree(pre, op.src) /\ LinkFree(pre, op.dst))
        => (~Exists(fs, op.src) /\ Exists(fs, op.dst))

\* a file moved to a name that held nothing
C7_Witness ==
    /\ op.name = "Rename" /\ op.err = "nil" /\ op.src # op.dst
    /\ LinkFree(pre, op.src) /\ LinkFree(pre, op.dst)
    /\ Node(pre, op.src).kind = "file" /\ Node(pre, op.dst).kind = "none"
    /\ Node(fs, op.dst) = Node(pre, op.src) /\ Node(fs, op.src).kind = "none"

-----------------------------------------------------------------------------
(* Exists *)

\* Exists is false exactly when the query fails with not-found
ExistsFollowsQuery ==
    op.name = "Exists" => (op.ret = FALSE <=> osStat(pre, op.src).err = "ENOENT")

\* C8 as stated: Exists(p) is false if and only if the link-following query on
\* p fails with not-found (true on success and on any other error); in
\* particular it is false for a path that was never created.
C8_ExistsNeverCreated ==
    /\ ExistsFollowsQuery
    /\ (op.name = "Exists" /\ op.src \notin created) => op.ret = FALSE

\* the directory that holds p can be reached and searched, and never held an
\* entry of p's name
NeverCreatedIn(f, p) ==
    LET up == Resolve1(f, Parent(p), TRUE)
    IN  /\ up.err = "nil"
        /\ Node(f, up.path).kind = "dir" /\ CanSearch(Node(f, up.path).mode)
        /\ Append(up.path, p[Len(p)]) \notin created

\* C8 as amended: Exists(p) is false if and only if the link-following query
\* on p fails with not-found; in particular it is false for a path whose
\* parent resolves to a directory the caller may search and in which no entry
\* of that name was ever created.
C8_ExistsNeverCreatedInDir ==
    /\ ExistsFollowsQuery
    /\ (op.name = "Exists" /\ NeverCreatedIn(pre, op.src)) => op.ret = FALSE

\* Exists answering true on a failed query
C8_Witness ==
    /\ op.name = "Exists" /\ op.ret = TRUE
    /\ osStat(pre, op.src).err \notin {"nil", "ENOENT"}

-----------------------------------------------------------------------------
(* IsFile, IsDir, IsSymlink *)

\* f with every permission granted: what is there, whoever may look
Unlocked(f) == [q \in DOMAIN f |-> [f[q] EXCEPT !.mode = ModeLink]]

\* p is a symbolic link
LinkAt(f, p) ==
    LET r == Resolve1(Unlocked(f), p, FALSE)
    IN  r.err = "nil" /\ Node(f, r.path).kind = "symlink"

\* the path a link at p stands for: its target, taken in the link's directory
TargetOf(f, p) ==
    LET r == Resolve1(Unlocked(f), p, FALSE)
    IN  Parent(r.path) \o Node(f, r.path).target

\* IsFile and IsDir are false when the query fails, and else say whether the
\* node the path leads to is a directory
Classified ==
    /\ op.name = "IsFile" =>
        op.ret = (osStat(pre, op.src).err = "nil" /\ Seen(pre, op.src).kind # "dir")
    /\ op.name = "IsDir" =>
        op.ret = (osStat(pre, op.src).err = "nil" /\ Seen(pre, op.src).kind = "dir")

\* IsFile and IsDir answer for a link what they answer for its target
ThroughLink ==
    /\ (op.name = "IsFile" /\ LinkAt(pre, op.src)) =>
        op.ret = IsFile(pre, TargetOf(pre, op.src))
    /\ (op.name = "IsDir" /\ LinkAt(pre, op.src)) =>
        op.ret = IsDir(pre, TargetOf(pre, op.src))

\* C9 as stated: IsFile and IsDir are both false when the link-following query
\* fails and else exactly one is true, by the directory flag of what the path
\* leads to; for a symbolic link L to T, IsSymlink(L) is true, IsFile(L) =
\* IsFile(T) and IsDir(L) = IsDir(T).
C9_Classification ==
    /\ Classified
    /\ ThroughLink
    /\ (op.name = "IsSymlink" /\ LinkAt(pre, op.src)) => op.ret = TRUE

\* C9 as amended: as stated, but IsSymlink(L) is true only for a link L that
\* the query that does not follow links can reach (every directory on the way
\* to L may be searched); for a link it cannot reach IsSymlink(L) is false.
C9_ClassificationReachable ==
    /\ Classified
    /\ ThroughLink
    /\ (op.name = "IsSymlink" /\ LinkAt(pre, op.src)) =>
        op.ret = (osLstat(pre, op.src).err = "nil")

\* IsFile answering true for a link to a file
C9_Witness ==
    /\ op.name = "IsFile" /\ LinkAt(pre, op.src) /\ op.ret = TRUE
    /\ Seen(pre, TargetOf(pre, op.src)).kind = "file"

-----------------------------------------------------------------------------
(* WriteTextFile, ReadTextFile *)

\* the call before was a successful WriteTextFile to the path read now
ReadAfterWrite ==
    /\ op.name = "ReadTextFile"
    /\ prev.name = "WriteTextFile"
    /\ prev.err = "nil"
    /\ prev.src = op.src

\* C5 as stated: ReadTextFile after a successful WriteTextFile(path, C, perm)
\* returns exactly C, whether the path was absent or held other content.
C5_TextRoundTrip ==
    ReadAfterWrite => op.err = "nil" /\ op.text = prev.text

\* C5: ReadTextFile after a successful WriteTextFile(path, C, perm), with no
\* call between them, returns exactly C whenever the file may be read by the
\* caller after the write -- whether the path was absent or held other content.
C5_TextRoundTripReadable ==
    ReadAfterWrite /\ CanRead(Seen(fs, op.src).mode)
        => op.err = "nil" /\ op.text = prev.text

\* C5 happens: a file that held longer content is written and read back
C5_Witness ==
    /\ ReadAfterWrite
    /\ op.src = <<"f">>
    /\ op.err = "nil"
    /\ op.text = prev.text
    /\ Len(op.text) < Len(TestData)
    /\ op.text # SubSeq(TestData, 1, Len(op.text))

-----------------------------------------------------------------------------
(* WriteFileLines, WriteFileLinesSep, ReadFileLines *)

\* the call before was a successful write of lines, with "\n" after each, to
\* the path read now
ReadAfterLines ==
    /\ op.name = "ReadFileLines"
    /\ prev.name \in {"WriteFileLines", "WriteFileLinesSep"}
    /\ prev.sep = <<LF>>
    /\ prev.err = "nil"
    /\ prev.src = op.src

\* C6 as stated: ReadFileLines after a successful WriteFileLines(path, Ls, perm)
\* (or WriteFileLinesSep with "\n") returns exactly Ls, for every Ls.
C6_LinesRoundTrip ==
    ReadAfterLines => op.err = "nil" /\ op.lines = prev.lines

\* a line the scanner gives back as it was written
ScansBack(line) ==
    /\ \A i \in 1..Len(line) : line[i] # LF
    /\ line = <<>> \/ line[Len(line)] # CR
    /\ ByteLen(line) < MaxScanTokenSize

\* C6: ReadFileLines after a successful WriteFileLines(path, Ls, perm) (or
\* WriteFileLinesSep with "\n"), with no call between them, returns exactly Ls
\* whenever the file may be read by the caller and every line of Ls holds no
\* line feed, does not end in a carriage return and is shorter than 64 KiB.
C6_LinesRoundTripPlain ==
    /\ ReadAfterLines
    /\ CanRead(Seen(fs, op.src).mode)
    /\ \A i \in 1..Len(prev.lines) : ScansBack(prev.lines[i])
    => op.err = "nil" /\ op.lines = prev.lines

\* C6 happens: lines, an empty one and one with a carriage return inside among
\* them, are written and read back
C6_Witness ==
    /\ ReadAfterLines
    /\ op.err = "nil"
    /\ op.lines = prev.lines
    /\ \E i, j \in 1..Len(op.lines) : op.lines[i] = <<>> /\ op.lines[j] = <<CR, "a">>

-----------------------------------------------------------------------------
(* Resolve: the arguments and the environment are drawn at the start *)

PathChars == {"~", ".", Slash, Backslash, "a"}

\* relative paths of up to MaxLen bytes
Relatives == UNION {[1..k -> PathChars] : k \in 0..MaxLen}

Bases == {<<>>, <<"b">>, <<Slash, "b">>}
Homes == {<<>>, <<Slash, "h">>}
Cwds == {<<>>, <<Slash, "w">>}

ResolveInputs ==
    {[NoInput EXCEPT !.relative = r, !.base = b, !.home = h, !.cwd = c] :
        r \in Relatives, b \in Bases, h \in Homes, c \in Cwds}

InitResolve ==
    /\ fs = Fixture
    /\ pre = fs
    /\ op = NoCall
    /\ prev = NoCall
    /\ created = DOMAIN fs
    /\ ncalls = 0
    /\ input \in ResolveInputs
    /\ proc = NoProc

\* a run that stopped with a panic makes no further call
DoResolve ==
    /\ ncalls < MaxCalls
    /\ op.err # "panic"
    /\ LET r == Resolve(input.relative, input.base, input)
       IN  Returns([NoCall EXCEPT !.name = "Resolve", !.relative = input.relative,
                                  !.base = input.base, !.text = r.path, !.err = r.err], fs)

NextResolve == DoResolve

SpecResolve == InitResolve /\ [][NextResolve]_vars

-----------------------------------------------------------------------------
(* Resolve on short paths *)

\* C10: for every relative path of length 0 or 1 that is not absolute, and
\* every base, Resolve returns a path or an error value and makes no access
\* out of the bounds of relative.
C10_ResolveChecksIndex ==
    op.name = "Resolve" /\ ~IsAbs(op.relative) /\ Len(op.relative) <= 1
        => op.err # "panic"

-----------------------------------------------------------------------------
(* Resolve, case by case *)

\* the call was Resolve on a relative of two bytes or more
ResolvedLong == op.name = "Resolve" /\ Len(op.relative) >= 2

\* what follows the first two bytes of the relative
Remainder == SubSeq(op.relative, 3, Len(op.relative))

\* the relative begins with c and a separator
BeginsWith(c) == op.relative[1] = c /\ op.relative[2] \in {Slash, Backslash}

\* the base, the working directory in place of an empty one
BaseUsed == IF op.base = <<>> THEN input.cwd ELSE op.base

\* a path made absolute: as it is when absolute, else below the working directory
Absolute(path) == IF IsAbs(path) THEN path ELSE Join(input.cwd, path)

-----------------------------------------------------------------------------
(* EnsureDir: the early return and what is created *)

\* the entries the call added
Added == DOMAIN fs \ DOMAIN pre

\* q is where the path of the call, or a directory on the way to it, is found
OnTheWay(q) ==
    \E k \in 1..Len(op.src) :
        /\ Resolve1(fs, SubSeq(op.src, 1, k), TRUE).err = "nil"
        /\ Resolve1(fs, SubSeq(op.src, 1, k), TRUE).path = q

-----------------------------------------------------------------------------
(* CopyDir: the first failure *)

\* the place of a name in the order of the walk
Pos(x) == CHOOSE i \in 1..Len(NameOrder) : NameOrder[i] = x

\* p comes before q in the walk: a directory before what it holds, and the
\* entries of a directory in lexical order
Before(p, q) ==
    /\ p # q
    /\ \/ IsPrefix(p, q)
       \/ \E k \in 1..Len(p) :
            /\ k <= Len(q)
            /\ SubSeq(p, 1, k - 1) = SubSeq(q, 1, k - 1)
            /\ Pos(p[k]) < Pos(q[k])

\* the entries of the tree at src before the call, as relative paths
WalkRels == {r \in Rels : op.src \o r \in DOMAIN pre}

\* the relative path of the entry whose handling failed
FailedRel == SubSeq(op.at, Len(op.src) + 1, Len(op.at))

\* dst/r, made by the call, is there with what was copied: a directory for a
\* directory, else a file with the content src/r led to
StillThere(r) ==
    IF Node(pre, op.src \o r).kind = "dir" THEN IsDir(fs, op.dst \o r)
    ELSE /\ IsFile(fs, op.dst \o r)
         /\ Seen(fs, op.dst \o r).data = Seen(pre, op.src \o r).data

\* C13: when the handling of an entry of src fails, CopyDir returns an error
\* (that entry's), no entry that follows it in the walk is created or changed
\* under dst, and every entry of dst the call made for an entry before it is
\* still there with what was copied.
C13_CopyDirStopsAtFailure ==
    op.name = "CopyDir" =>
        /\ op.err # "nil" <=> op.at # <<>>
        /\ op.err # "nil" =>
            /\ IsPrefix(op.src, op.at)
            /\ \A r \in WalkRels :
                /\ Before(FailedRel, r) => Same(fs, pre, op.dst \o r)
                /\ (Before(r, FailedRel) /\ osLstat(pre, op.dst \o r).err = "ENOENT")
                    => StillThere(r)

\* C13 happens: the root was copied, the next entry failed, and a file that
\* follows it and could have been copied was not
C13_Witness ==
    /\ op.name = "CopyDir" /\ op.err # "nil"
    /\ op.at # op.src
    /\ osLstat(pre, op.dst).err = "ENOENT" /\ IsDir(fs, op.dst)
    /\ \E r \in WalkRels :
        /\ Before(FailedRel, r)
        /\ osOpen(pre, op.src \o r).err = "nil"
        /\ Node(pre, op.src \o r).kind = "file"
        /\ osLstat(fs, op.dst \o r).err = "ENOENT"

-----------------------------------------------------------------------------
(* CopyFile: handles *)

\* the handles a call to CopyFile has opened when it returns at a statement
OpenedBy(step) ==
    IF step \in {"stat", "noop", "open"} THEN {}
    ELSE IF step = "create" THEN {SrcFile}
    ELSE {SrcFile, DstFile}

-----------------------------------------------------------------------------
(* Two callers: CopyFile, statement by statement, and a writer of its dst *)

RaceSrc == {<<"f">>, <<"d", "f">>, <<"n">>}
RaceDst == {<<"n">>, <<"f">>, <<"l">>}

\* the copier is about to start CopyFile(src, dst, overwrite); the writer is
\* about to call WriteFile(dst, data, 0644)
InitRace ==
    /\ fs \in Fixtures
    /\ pre = fs
    /\ \E src \in RaceSrc, dst \in RaceDst, ow \in BOOLEAN :
        op = [NoCall EXCEPT !.name = "CopyFile", !.src = src, !.dst = dst, !.ow = ow]
    /\ prev = NoCall
    /\ created = DOMAIN fs
    /\ ncalls = 0
    /\ input \in {[NoInput EXCEPT !.text = t] : t \in Texts \ {<<>>}}
    /\ proc = [NoProc EXCEPT !.copier = "stat", !.writer = "open"]

\* a statement of one of the callers: the call's record, the filesystem and
\* the callers after it
Steps(o, f, p) ==
    /\ op' = o
    /\ fs' = f
    /\ proc' = p
    /\ created' = created \cup DOMAIN f
    /\ UNCHANGED <<prev, ncalls, input>>

\* the copier returns
Done(step, err) ==
    [op EXCEPT !.step = step, !.err = err, !.closed = op.opened]

\* CopyFile: os.Stat(src) (xfs.go 122-125)
CopierStat ==
    /\ proc.copier = "stat"
    /\ UNCHANGED pre
    /\ IF osStat(fs, op.src).err # "nil"
       THEN Steps(Done("stat", osStat(fs, op.src).err), fs,
                  [proc EXCEPT !.copier = "done"])
       ELSE Steps([op EXCEPT !.perm = osStat(fs, op.src).mode], fs,
                  [proc EXCEPT !.copier = "guard"])

\* copyFile: the guard (xfs.go 592-594)
CopierGuard ==
    /\ proc.copier = "guard"
    /\ UNCHANGED pre
    /\ IF Exists(fs, op.dst) /\ ~op.ow
       THEN Steps(Done("noop", "nil"), fs, [proc EXCEPT !.copier = "done"])
       ELSE Steps(op, fs, [proc EXCEPT !.copier = "open"])

\* copyFile: os.Open(src) (xfs.go 596-600)
CopierOpen ==
    /\ proc.copier = "open"
    /\ UNCHANGED pre
    /\ IF osOpen(fs, op.src).err # "nil"
       THEN Steps(Done("open", osOpen(fs, op.src).err), fs,
                  [proc EXCEPT !.copier = "done"])
       ELSE Steps([op EXCEPT !.opened = {SrcFile}], fs,
                  [proc EXCEPT !.copier = "create", !.srcFile = osOpen(fs, op.src).path])

\* copyFile: os.Create(dst) (xfs.go 602-606); pre keeps the filesystem as it
\* was at this moment
CopierCreate ==
    /\ proc.copier = "create"
    /\ pre' = fs
    /\ IF osCreate(fs, op.dst).err # "nil"
       THEN Steps(Done("create", osCreate(fs, op.dst).err), fs,
                  [proc EXCEPT !.copier = "done"])
       ELSE Steps([op EXCEPT !.opened = {SrcFile, DstFile}, !.step = "created"],
                  osCreate(fs, op.dst).fs,
                  [proc EXCEPT !.copier = "copy", !.dstFile = osCreate(fs, op.dst).path])

\* copyFile: io.Copy(dstFile, srcFile) (xfs.go 608-610)
CopierCopy ==
    /\ proc.copier = "copy"
    /\ UNCHANGED pre
    /\ IF ioCopy(fs, proc.dstFile, proc.srcFile).err # "nil"
       THEN Steps(Done("copy", ioCopy(fs, proc.dstFile, proc.srcFile).err), fs,
                  [proc EXCEPT !.copier = "done"])
       ELSE Steps(op, ioCopy(fs, proc.dstFile, proc.srcFile).fs,
                  [proc EXCEPT !.copier = "chmod"])

\* copyFile: os.Chmod(dst, info.Mode()) (xfs.go 612)
CopierChmod ==
    /\ proc.copier = "chmod"
    /\ UNCHANGED pre
    /\ Steps(Done("chmod", osChmod(fs, op.dst, op.perm).err),
             osChmod(fs, op.dst, op.perm).fs, [proc EXCEPT !.copier = "done"])

\* the writer's WriteFile(dst, data, 0644): the file is opened, created or
\* truncated
WriterOpen ==
    /\ proc.writer = "open"
    /\ UNCHANGED pre
    /\ IF OpenTrunc(fs, op.dst, ModeFile, FALSE).err # "nil"
       THEN Steps(op, fs, [proc EXCEPT !.writer = "done"])
       ELSE Steps(op, OpenTrunc(fs, op.dst, ModeFile, FALSE).fs,
                  [proc EXCEPT !.writer = "write",
                               !.toWrite = OpenTrunc(fs, op.dst, ModeFile, FALSE).path])

\* the writer's WriteFile: the data is written and the file closed
WriterWrite ==
    /\ proc.writer = "write"
    /\ UNCHANGED pre
    /\ Steps(op, Put(fs, proc.toWrite, [Node(fs, proc.toWrite) EXCEPT !.data = input.text]),
             [proc EXCEPT !.writer = "done"])

NextRace ==
    \/ CopierStat
    \/ CopierGuard
    \/ CopierOpen
    \/ CopierCreate
    \/ CopierCopy
    \/ CopierChmod
    \/ WriterOpen
    \/ WriterWrite

SpecRace == InitRace /\ [][NextRace]_vars

-----------------------------------------------------------------------------
(* CopyFile without overwrite, with a writer at work *)

\* C15: in every interleaving of CopyFile(src, dst, false) with a caller that
\* creates and writes dst, CopyFile never truncates a dst that exists at the
\* moment it opens it for writing: when os.Create(dst) has run, dst did not
\* exist just before it.
C15_GuardHoldsUnderRace ==
    (/\ op.name = "CopyFile" /\ ~op.ow
     /\ proc.copier \in {"copy", "chmod", "done"}
     /\ op.step \in {"created", "copy", "chmod"})
        => ~Exists(pre, op.dst)

=============================================================================
